---- MODULE Spec2Model ----
(***************************************************************************)
(* A model of src/dash.py: the records dashboard.  The program is a chain  *)
(* of table transformations (load_data, apply_filters, the two tab masks   *)
(* of main, best_per_class_and_lift and the weight-class option sort).     *)
(* A table is a sequence of rows; a row is a record of cells.  A text cell *)
(* is a tuple of one-character strings, so that trimming, suffix tests,    *)
(* searching, lower-casing, number parsing and string ordering are         *)
(* computed character by character; a missing cell is NaN.                 *)
(***************************************************************************)
EXTENDS Integers, Sequences, FiniteSets, TLC

VARIABLES pc, raw, df, sel, filtered, full_power, single_lifts, best, best2, weight_opts

vars == <<pc, raw, df, sel, filtered, full_power, single_lifts, best, best2, weight_opts>>

(***************************************************************************)
(* Bounds of the model.                                                    *)
(***************************************************************************)
MaxRaw == 2

MaxRecs == 2

MaxRows == 2

MaxTab == 2

MaxOpts == 4

(***************************************************************************)
(* Cells.                                                                  *)
(***************************************************************************)
\* A missing text cell (numpy.nan in an object column).
NaN == <<"NaN">>

\* A float cell: a number, kept in thousandths, or the float NaN.
FNaN == [nan |-> TRUE, v |-> 0]

F(n) == [nan |-> FALSE, v |-> n]

\* The printable ASCII characters in code order, from code 32 (the three
\* that a TLA+ string cannot hold are named, to keep the positions).
Ascii ==
    << " ", "!", "<quote>", "#", "$", "%", "&", "'", "(", ")", "*", "+", ",", "-",
       ".", "/", "0", "1", "2", "3", "4", "5", "6", "7", "8", "9", ":", ";",
       "<", "=", ">", "?", "@", "A", "B", "C", "D", "E", "F", "G", "H", "I",
       "J", "K", "L", "M", "N", "O", "P", "Q", "R", "S", "T", "U", "V", "W",
       "X", "Y", "Z", "[", "<backslash>", "]", "^", "_", "<backtick>", "a", "b", "c", "d", "e",
       "f", "g", "h", "i", "j", "k", "l", "m", "n", "o", "p", "q", "r", "s",
       "t", "u", "v", "w", "x", "y", "z", "{", "|", "}", "~" >>

\* ord(c)
Ord == [c \in {Ascii[i] : i \in 1..Len(Ascii)} |->
           31 + (CHOOSE i \in 1..Len(Ascii) : Ascii[i] = c)]

\* str.lower() of one character
LowerChar(c) == IF Ord[c] >= 65 /\ Ord[c] <= 90 THEN Ascii[Ord[c] + 32 - 31] ELSE c

\* Python's s < t on str: lexicographic by code point.
RECURSIVE StrLess(_, _)
StrLess(s, t) ==
    IF t = <<>> THEN FALSE
    ELSE IF s = <<>> THEN TRUE
    ELSE IF s[1] # t[1] THEN Ord[s[1]] < Ord[t[1]]
    ELSE StrLess(Tail(s), Tail(t))

\* str.strip(): leading and trailing whitespace removed.
RECURSIVE LStrip(_)
LStrip(s) == IF s # <<>> /\ s[1] = " " THEN LStrip(Tail(s)) ELSE s

RECURSIVE RStrip(_)
RStrip(s) ==
    IF s # <<>> /\ s[Len(s)] = " " THEN RStrip(SubSeq(s, 1, Len(s) - 1)) ELSE s

Strip(s) == RStrip(LStrip(s))

\* str.endswith(suffix)
EndsWith(s, suffix) ==
    /\ Len(s) >= Len(suffix)
    /\ SubSeq(s, Len(s) - Len(suffix) + 1, Len(s)) = suffix

Digits == {"0", "1", "2", "3", "4", "5", "6", "7", "8", "9"}

DigitVal(c) == Ord[c] - 48

RECURSIVE DigitsVal(_)
DigitsVal(s) ==
    IF s = <<>> THEN 0 ELSE 10 * DigitsVal(SubSeq(s, 1, Len(s) - 1)) + DigitVal(s[Len(s)])

RECURSIVE Pow10(_)
Pow10(n) == IF n = 0 THEN 1 ELSE 10 * Pow10(n - 1)

\* pandas.to_numeric(text, errors="coerce") on text of digits, letters and
\* marks without a sign, an exponent or spaces around it: digits with at most
\* one "." (and at most three of them after it) parse to their value, kept
\* in thousandths; any other text, "nan" too, is coerced to NaN.
ToNumeric(s) ==
    LET dots == {i \in 1..Len(s) : s[i] = "."}
        digs == {i \in 1..Len(s) : s[i] \in Digits}
    IN  IF s = NaN \/ digs = {} \/ Cardinality(dots) > 1
           \/ digs \cup dots # 1..Len(s)
        THEN FNaN
        ELSE IF dots = {}
        THEN F(1000 * DigitsVal(s))
        ELSE LET d == CHOOSE i \in dots : TRUE
                 frac == SubSeq(s, d + 1, Len(s))
             IN  IF Len(frac) > 3 THEN FNaN
                 ELSE F(1000 * DigitsVal(SubSeq(s, 1, d - 1))
                        + DigitsVal(frac) * Pow10(3 - Len(frac)))

(***************************************************************************)
(* Constants of the program.                                               *)
(***************************************************************************)
Squat == <<"S", "q", "u", "a", "t">>

Bench == <<"B", "e", "n", "c", "h">>

Deadlift == <<"D", "e", "a", "d", "l", "i", "f", "t">>

Total == <<"T", "o", "t", "a", "l">>

\* LIFT_MAP, as the set of its (key, value) pairs
LIFT_MAP ==
    { <<<<"S">>, Squat>>, <<<<"B">>, Bench>>, <<<<"D">>, Deadlift>>,
      <<<<"T">>, Total>>, <<Total, Total>> }

LIFT_ORDER == <<Squat, Bench, Deadlift, Total>>

INVALID_WEIGHT_CLASSES ==
    { <<"7", "3", "6">>, <<"7", "3", "7">>, <<"7", "3", "8">>,
      <<"7", "3", "9">>, <<"c", "e", "l", "l">> }

(***************************************************************************)
(* load_data                                                               *)
(***************************************************************************)
\* Series.str.strip(): a missing cell stays missing.
StrStrip(x) == IF x = NaN THEN NaN ELSE Strip(x)

\* Series.astype(str): a missing cell becomes the text "nan".
AsTypeStr(x) == IF x = NaN THEN <<"n", "a", "n">> ELSE x

\* Series.str.replace(r"DT$", "", regex=True) on a stripped cell: the one
\* match of DT at the end of the text is removed.
DivisionBase(x) ==
    IF x = NaN THEN NaN
    ELSE IF EndsWith(x, <<"D", "T">>) THEN SubSeq(x, 1, Len(x) - 2)
    ELSE x

Tested == <<"T", "e", "s", "t", "e", "d">>

Untested == <<"U", "n", "t", "e", "s", "t", "e", "d">>

\* Series.str.endswith("DT").map({True: "Tested", False: "Untested"}): on a
\* missing cell of an object column endswith gives NaN, which the mapping
\* leaves NaN.
Testing(x) ==
    IF x = NaN THEN NaN
    ELSE IF EndsWith(x, <<"D", "T">>) THEN Tested
    ELSE Untested

\* Series.replace(LIFT_MAP).fillna(original), then fillna("").
LiftLabel(x) ==
    IF x = NaN THEN <<>>
    ELSE IF \E p \in LIFT_MAP : p[1] = x
    THEN (CHOOSE p \in LIFT_MAP : p[1] = x)[2]
    ELSE x

FillNa(x) == IF x = NaN THEN <<>> ELSE x

\* The mask of line 30: both cells present.
Present(r) == r.Full_Name # NaN /\ r.Weight # NaN

\* One row through lines 31-41.
LoadRow(r) ==
    LET division_raw == StrStrip(r.Division)
    IN  [ Full_Name     |-> r.Full_Name,
          Weight        |-> ToNumeric(r.Weight),
          Class         |-> Strip(AsTypeStr(r.Class)),
          Division      |-> r.Division,
          Division_raw  |-> division_raw,
          Division_base |-> DivisionBase(division_raw),
          Testing       |-> Testing(division_raw),
          Lift          |-> LiftLabel(r.Lift),
          Record_Type   |-> FillNa(r.Record_Type),
          Record_Name   |-> FillNa(r.Record_Name) ]

\* Lines 31-41 on every row of the frame.
LoadRows(t) == [i \in 1..Len(t) |-> LoadRow(t[i])]

ValidClass(r) == r.Class \notin INVALID_WEIGHT_CLASSES

load_data(rows) == SelectSeq(LoadRows(SelectSeq(rows, Present)), ValidClass)

(***************************************************************************)
(* The raw rows load_data is run on.                                       *)
(***************************************************************************)
RawNames == { NaN, <<"A", "l">> }

RawWeights == { NaN, <<"1", "0", "0">>, <<"9", "2", ".", "5">>, <<"x">> }

RawClasses == { NaN, <<"9", "0">>, <<" ", "7", "3", "6">> }

RawDivisions ==
    { NaN, <<"D", "T">>, <<"O", "p", "e", "n">>,
      <<"J", "u", "n", "i", "o", "r", "D", "T">>,
      <<" ", "O", "p", "e", "n", "s", "D", "T", " ">>,
      <<"M", "4", "0", "-", "4", "9", "D", "T", "D", "T">> }

RawLifts == { NaN, <<"S">>, <<"X">> }

RawRows ==
    [ Full_Name : RawNames, Weight : RawWeights, Class : RawClasses,
      Division : RawDivisions, Lift : RawLifts,
      Record_Type : {NaN}, Record_Name : {NaN} ]

SeqsUpTo(S, n) == UNION {[1..k -> S] : k \in 0..n}

All == <<"A", "l", "l">>

\* The selection before any widget is touched.
NoSel == [sex |-> All, division |-> All, testing_status |-> All, equipment |-> All,
          weight_class |-> All, search |-> <<>>]

InitLoad ==
    /\ pc = "start"
    /\ raw \in SeqsUpTo(RawRows, MaxRaw)
    /\ df = <<>>
    /\ sel = NoSel
    /\ filtered = <<>>
    /\ full_power = <<>>
    /\ single_lifts = <<>>
    /\ best = <<>>
    /\ best2 = <<>>
    /\ weight_opts = <<>>

\* main, line 250: df = load_data(CSV_PATH)
LoadData ==
    /\ pc = "start"
    /\ df' = load_data(raw)
    /\ pc' = "loaded"
    /\ UNCHANGED <<raw, sel, filtered, full_power, single_lifts, best, best2, weight_opts>>

NextLoad == LoadData

SpecLoad == InitLoad /\ [][NextLoad]_vars

\* C2: every row load_data retains has a non-empty Full Name and a Weight
\* that is a number.
C2_RetainedHaveNameAndNumber ==
    pc = "loaded" =>
        \A i \in 1..Len(df) :
            /\ df[i].Full_Name \notin {NaN, <<>>}
            /\ df[i].Weight.nan = FALSE

\* C7: in every retained row Testing is Tested or Untested, and Tested
\* exactly when the trimmed Division ends with "DT" (so a missing Division
\* is Untested).
C7_TestingIsTestedIffDT ==
    pc = "loaded" =>
        \A i \in 1..Len(df) :
            LET division == df[i].Division
                endsDT == /\ division # NaN
                          /\ Len(Strip(division)) >= 2
                          /\ Strip(division)[Len(Strip(division)) - 1] = "D"
                          /\ Strip(division)[Len(Strip(division))] = "T"
            IN  /\ df[i].Testing \in {Tested, Untested}
                /\ df[i].Testing = Tested <=> endsDT

\* C8: in no retained row does Division_base end with "DT".
C8_BaseHasNoTrailingDT ==
    pc = "loaded" =>
        \A i \in 1..Len(df) :
            LET b == df[i].Division_base
            IN  b # NaN => ~(Len(b) >= 2 /\ b[Len(b) - 1] = "D" /\ b[Len(b)] = "T")

(***************************************************************************)
(* best_per_class_and_lift                                                 *)
(***************************************************************************)
Perms(n) == {p \in [1..n -> 1..n] : \A i, j \in 1..n : p[i] = p[j] => i = j}

\* WeightDescOk with the sort ascending (ascending=True): the lightest first.
WeightAscOk(a, b, ia, ib) ==
    IF a.Weight.nan THEN b.Weight.nan /\ ia < ib
    ELSE b.Weight.nan \/ a.Weight.v <= b.Weight.v

\* Whether row a may stand before row b after sort_values("Weight",
\* ascending=False): numbers in descending order, NaN rows last and, among
\* themselves, in their original order (ia, ib: the rows' positions before).
\* The default kind is quicksort, which is not stable: rows of equal Weight
\* may come out in either order.
WeightDescOk(a, b, ia, ib) ==
    IF a.Weight.nan THEN b.Weight.nan /\ ia < ib
    ELSE b.Weight.nan \/ a.Weight.v >= b.Weight.v

\* The possible results of df.sort_values("Weight", ascending=False).
SortValuesWeight(d) ==
    LET n == Len(d)
    IN  { [i \in 1..n |-> d[p[i]]] :
            p \in {q \in Perms(n) :
                     \A i, j \in 1..n :
                        i < j => WeightDescOk(d[q[i]], d[q[j]], q[i], q[j])} }

\* drop_duplicates(subset=["Class", "Lift"]): the first row of each pair stays.
DropDuplicates(s) ==
    LET first(i) == \A k \in 1..(i - 1) :
                       ~(s[k].Class = s[i].Class /\ s[k].Lift = s[i].Lift)
        keep == {i \in 1..Len(s) : first(i)}
        F2[i \in 0..Len(s)] ==
            IF i = 0 THEN <<>>
            ELSE IF i \in keep THEN Append(F2[i - 1], s[i]) ELSE F2[i - 1]
    IN  F2[Len(s)]

\* _class_num: pd.to_numeric(d["Class"], errors="coerce")
ClassNum(r) == ToNumeric(r.Class)

\* _lift_order: LIFT_ORDER.index(x) if x in LIFT_ORDER else 99
LiftOrder(r) ==
    IF \E k \in 1..Len(LIFT_ORDER) : LIFT_ORDER[k] = r.Lift
    THEN (CHOOSE k \in 1..Len(LIFT_ORDER) : LIFT_ORDER[k] = r.Lift) - 1
    ELSE 99

\* .assign(_class_num=..., _lift_order=...): the two sort columns are added.
Assign(s) ==
    [i \in 1..Len(s) |->
        [row |-> s[i], class_num |-> ClassNum(s[i]), lift_order |-> LiftOrder(s[i])]]

\* .drop(columns=["_class_num", "_lift_order"])
DropColumns(s) == [i \in 1..Len(s) |-> s[i].row]

\* KeyLess with the columns as ["Class", "_class_num", "_lift_order"]: the
\* Class string decides before its number.
KeyLessStringFirst(a, b) ==
    IF a.row.Class # b.row.Class THEN StrLess(a.row.Class, b.row.Class)
    ELSE a.lift_order < b.lift_order

\* The order of sort_values(["_class_num", "Class", "_lift_order"]): a NaN
\* _class_num is after every number (na_position="last").
KeyLess(a, b) ==
    IF a.class_num # b.class_num
    THEN IF a.class_num.nan THEN FALSE
         ELSE (b.class_num.nan \/ a.class_num.v < b.class_num.v)
    ELSE IF a.row.Class # b.row.Class THEN StrLess(a.row.Class, b.row.Class)
    ELSE a.lift_order < b.lift_order

\* A stable sort by KeyLess (the sort of several columns is stable): each
\* row goes after the rows already placed that are not greater than it.
RECURSIVE InsertByKey(_, _)
InsertByKey(s, r) ==
    IF s = <<>> THEN <<r>>
    ELSE IF KeyLess(r, s[Len(s)])
    THEN Append(InsertByKey(SubSeq(s, 1, Len(s) - 1), r), s[Len(s)])
    ELSE Append(s, r)

RECURSIVE SortValuesKey(_)
SortValuesKey(s) ==
    IF s = <<>> THEN <<>>
    ELSE InsertByKey(SortValuesKey(SubSeq(s, 1, Len(s) - 1)), s[Len(s)])

\* The possible results of best_per_class_and_lift(d).
best_per_class_and_lift(d) ==
    { DropColumns(SortValuesKey(Assign(DropDuplicates(s)))) : s \in SortValuesWeight(d) }

(***************************************************************************)
(* The tables best_per_class_and_lift is run on.  A row keeps the columns  *)
(* the function reads and idx, its label in the frame's index.             *)
(***************************************************************************)
BestClasses ==
    { <<"9", "0">>, <<"9", "0", ".", "0">>, <<"1", "0", "0">>,
      <<"S", "H", "W">>, <<"1", "4", "0", "+">> }

BestLifts == { Squat, Bench, <<"X">>, <<"Y">> }

BestWeights == { F(100000), F(200000), FNaN }

BestRows == [Class : BestClasses, Lift : BestLifts, Weight : BestWeights]

WithIndex(s) ==
    [i \in 1..Len(s) |->
        [idx |-> i, Class |-> s[i].Class, Lift |-> s[i].Lift, Weight |-> s[i].Weight]]

InitBest ==
    /\ pc = "start"
    /\ raw = <<>>
    /\ df \in {WithIndex(s) : s \in SeqsUpTo(BestRows, MaxRecs)}
    /\ sel = NoSel
    /\ filtered = <<>>
    /\ full_power = <<>>
    /\ single_lifts = <<>>
    /\ best = <<>>
    /\ best2 = <<>>
    /\ weight_opts = <<>>

\* render_table, line 161: best = best_per_class_and_lift(filtered)
Best ==
    /\ pc = "start"
    /\ best' \in best_per_class_and_lift(df)
    /\ pc' = "best"
    /\ UNCHANGED <<raw, df, sel, filtered, full_power, single_lifts, best2, weight_opts>>

\* The function applied to its own result.
BestAgain ==
    /\ pc = "best"
    /\ best2' \in best_per_class_and_lift(best)
    /\ pc' = "again"
    /\ UNCHANGED <<raw, df, sel, filtered, full_power, single_lifts, best, weight_opts>>

NextBest == Best \/ BestAgain

SpecBest == InitBest /\ [][NextBest]_vars

\* The (Class, Lift) pairs of a table.
PairsOf(t) == { <<t[i].Class, t[i].Lift>> : i \in 1..Len(t) }

\* C1: the result holds exactly one row for each (Class, Lift) pair of the
\* input and none for another pair; the row is a row of the input, and its
\* Weight is at least every numeric Weight of the input rows of its pair
\* (an empty input gives an empty result).
C1_OneBestRowPerPair ==
    pc # "start" =>
        /\ PairsOf(best) = PairsOf(df)
        /\ Len(best) = Cardinality(PairsOf(df))
        /\ \A i \in 1..Len(best) :
              /\ \E j \in 1..Len(df) : df[j] = best[i]
              /\ \A j \in 1..Len(df) :
                    (df[j].Class = best[i].Class /\ df[j].Lift = best[i].Lift
                        /\ ~df[j].Weight.nan)
                    => (~best[i].Weight.nan /\ best[i].Weight.v >= df[j].Weight.v)

\* A pair of the input has rows of different numeric Weight, the lighter
\* one first, and the function has run.
C1_Witness ==
    /\ pc = "best"
    /\ \E i, j \in 1..Len(df) :
          /\ i < j
          /\ df[i].Class = df[j].Class /\ df[i].Lift = df[j].Lift
          /\ ~df[i].Weight.nan /\ ~df[j].Weight.nan
          /\ df[i].Weight.v < df[j].Weight.v
    /\ Len(best) < Len(df)

\* Both numbers, the first smaller; both numbers and equal; both not numbers.
NumBefore(x, y) == ~x.nan /\ ~y.nan /\ x.v < y.v

SameNum(x, y) == ~x.nan /\ ~y.nan /\ x.v = y.v

BothNaN(x, y) == x.nan /\ y.nan

\* C3, as stated: by numeric Class ascending, non-numeric classes after
\* all numeric ones and by string; rows whose classes have an equal numeric
\* value (however spelled) by Lift in the order Squat, Bench, Deadlift,
\* Total, others last.
C3_ByNumberThenLift ==
    pc # "start" =>
        \A i, j \in 1..Len(best) :
            i < j =>
                LET a == best[i]
                    b == best[j]
                    x == ClassNum(a)
                    y == ClassNum(b)
                IN  /\ ~NumBefore(y, x)
                    /\ x.nan => y.nan
                    /\ BothNaN(x, y) => ~StrLess(b.Class, a.Class)
                    /\ (SameNum(x, y) \/ a.Class = b.Class) => LiftOrder(a) <= LiftOrder(b)

\* C3, amended: by numeric Class ascending, non-numeric classes after all
\* numeric ones; classes of equal numeric value, and the non-numeric ones,
\* by string; rows of one Class string by Lift in the order Squat, Bench,
\* Deadlift, Total, others last.
C3_ByNumberThenStringThenLift ==
    pc # "start" =>
        \A i, j \in 1..Len(best) :
            i < j =>
                LET a == best[i]
                    b == best[j]
                    x == ClassNum(a)
                    y == ClassNum(b)
                IN  /\ ~NumBefore(y, x)
                    /\ x.nan => y.nan
                    /\ (SameNum(x, y) \/ BothNaN(x, y)) => ~StrLess(b.Class, a.Class)
                    /\ a.Class = b.Class => LiftOrder(a) <= LiftOrder(b)

\* Two classes of equal numeric value, spelled differently, come in with
\* the later string first and the earlier lift on it, and come out by string.
C3_Witness ==
    /\ pc = "best"
    /\ \E i, j \in 1..Len(df) :
          /\ i < j
          /\ SameNum(ClassNum(df[i]), ClassNum(df[j]))
          /\ StrLess(df[j].Class, df[i].Class)
          /\ LiftOrder(df[i]) < LiftOrder(df[j])
          /\ \E k, l \in 1..Len(best) :
                k < l /\ best[k] = df[j] /\ best[l] = df[i]

RECURSIVE SplitAlt(_)
SplitAlt(p) ==
    IF \E i \in 1..Len(p) : p[i] = "|"
    THEN LET i == CHOOSE k \in 1..Len(p) : p[k] = "|" /\ \A m \in 1..(k - 1) : p[m] # "|"
         IN  <<SubSeq(p, 1, i - 1)>> \o SplitAlt(SubSeq(p, i + 1, Len(p)))
    ELSE <<p>>

\* re.compile raises re.error on the pattern.
RegexError(p) ==
    \/ \E i \in 1..Len(p) : p[i] = "("
    \/ \E i \in 1..Len(p) : p[i] = "*" /\ (i = 1 \/ p[i - 1] \in {"*", "|"})

\* The atoms of one alternative: a character (or any), starred or not.
RECURSIVE Atoms(_)
Atoms(p) ==
    IF p = <<>> THEN <<>>
    ELSE LET star == Len(p) >= 2 /\ p[2] = "*"
         IN  <<[ch |-> LowerChar(p[1]), any |-> p[1] = ".", star |-> star]>>
             \o Atoms(SubSeq(p, IF star THEN 3 ELSE 2, Len(p)))

\* re.compile(p, re.IGNORECASE), for a pattern that compiles: the atoms of
\* each alternative.
Compile(p) == LET alts == SplitAlt(p) IN [a \in 1..Len(alts) |-> Atoms(alts[a])]

\* The atoms from the k-th on match text t from position pos on.
RECURSIVE MatchFrom(_, _, _, _)
MatchFrom(atoms, k, t, pos) ==
    IF k > Len(atoms) THEN TRUE
    ELSE LET a == atoms[k]
             hit == pos <= Len(t) /\ (a.any \/ a.ch = LowerChar(t[pos]))
         IN  IF a.star
             THEN MatchFrom(atoms, k + 1, t, pos) \/ (hit /\ MatchFrom(atoms, k, t, pos + 1))
             ELSE hit /\ MatchFrom(atoms, k + 1, t, pos + 1)

\* pat.search(t) is not None, for a compiled pattern
RegexSearch(pat, t) ==
    \E a \in 1..Len(pat) : \E pos \in 1..(Len(t) + 1) : MatchFrom(pat[a], 1, t, pos)

\* One cell of Series.str.contains(p, case=False, na=False), p compiled.
StrContains(x, pat) == IF x = NaN THEN FALSE ELSE RegexSearch(pat, x)

(***************************************************************************)
(* apply_filters                                                           *)
(***************************************************************************)
KeepSex(r, s) == r.Sex = s.sex

KeepDivision(r, s) == r.Division_base = s.division

KeepTesting(r, s) == r.Testing = s.testing_status

KeepEquipment(r, s) == r.Equipment = s.equipment

KeepClass(r, s) == r.Class = s.weight_class

KeepSearch(r, s) ==
    LET pat == Compile(s.search)
    IN  StrContains(r.Full_Name, pat) \/ StrContains(r.Record_Name, pat)

\* t[mask]: the rows of t whose entry in the Boolean series mask is True,
\* in their order.
RECURSIVE Mask(_, _)
Mask(t, mask) ==
    IF t = <<>> THEN <<>>
    ELSE (IF Head(mask) THEN <<Head(t)>> ELSE <<>>) \o Mask(Tail(t), Tail(mask))

\* The Boolean series of each step, over the rows t filtered so far.
SexIs(t, s) == [i \in 1..Len(t) |-> KeepSex(t[i], s)]

DivisionIs(t, s) == [i \in 1..Len(t) |-> KeepDivision(t[i], s)]

TestingIs(t, s) == [i \in 1..Len(t) |-> KeepTesting(t[i], s)]

EquipmentIs(t, s) == [i \in 1..Len(t) |-> KeepEquipment(t[i], s)]

ClassIs(t, s) == [i \in 1..Len(t) |-> KeepClass(t[i], s)]

SearchHits(t, s) == [i \in 1..Len(t) |-> KeepSearch(t[i], s)]

\* apply_filters with the weight-class step written as df[df["Class"] == ...]:
\* it takes its rows from d, not from the rows filtered so far.
apply_filters_unchained(d, s) ==
    LET f1 == IF s.sex # All THEN Mask(d, SexIs(d, s)) ELSE d
        f2 == IF s.division # All THEN Mask(f1, DivisionIs(f1, s)) ELSE f1
        f3 == IF s.testing_status # All THEN Mask(f2, TestingIs(f2, s)) ELSE f2
        f4 == IF s.equipment # All THEN Mask(f3, EquipmentIs(f3, s)) ELSE f3
        f5 == IF s.weight_class # All THEN Mask(d, ClassIs(d, s)) ELSE f4
    IN  IF s.search # <<>>
        THEN IF RegexError(s.search)
             THEN [raised |-> TRUE, rows |-> <<>>]
             ELSE [raised |-> FALSE, rows |-> Mask(f5, SearchHits(f5, s))]
        ELSE [raised |-> FALSE, rows |-> f5]

\* apply_filters(d, s): the six steps in the order of the code; the result
\* is the rows returned, or raised when the search pattern does not compile.
apply_filters(d, s) ==
    LET f1 == IF s.sex # All THEN Mask(d, SexIs(d, s)) ELSE d
        f2 == IF s.division # All THEN Mask(f1, DivisionIs(f1, s)) ELSE f1
        f3 == IF s.testing_status # All THEN Mask(f2, TestingIs(f2, s)) ELSE f2
        f4 == IF s.equipment # All THEN Mask(f3, EquipmentIs(f3, s)) ELSE f3
        f5 == IF s.weight_class # All THEN Mask(f4, ClassIs(f4, s)) ELSE f4
    IN  IF s.search # <<>>
        THEN IF RegexError(s.search)
             THEN [raised |-> TRUE, rows |-> <<>>]
             ELSE [raised |-> FALSE, rows |-> Mask(f5, SearchHits(f5, s))]
        ELSE [raised |-> FALSE, rows |-> f5]

(***************************************************************************)
(* The tables and selections apply_filters is run on.                      *)
(***************************************************************************)
Male == <<"M">>

Female == <<"F">>

Junior == <<"J", "u", "n", "i", "o", "r">>

Open == <<"O", "p", "e", "n">>

Raw == <<"R", "a", "w">>

Wraps == <<"W", "r", "a", "p", "s">>

C90 == <<"9", "0">>

C100 == <<"1", "0", "0">>

\* Rows as load_data leaves them: Sex and Equipment may be missing, and so
\* may Division_base and Testing when Division is.
Sheet ==
    { [Sex |-> Male, Division_base |-> Junior, Testing |-> Tested, Equipment |-> Raw,
       Class |-> C90, Full_Name |-> <<"J", "u", "n", "e">>, Record_Name |-> <<>>],
      [Sex |-> Female, Division_base |-> Junior, Testing |-> Untested, Equipment |-> Wraps,
       Class |-> C90, Full_Name |-> <<"A", "l">>, Record_Name |-> <<"j", "u", "n">>],
      [Sex |-> Male, Division_base |-> Open, Testing |-> Tested, Equipment |-> Wraps,
       Class |-> C100, Full_Name |-> <<"J", "o">>, Record_Name |-> <<>>],
      [Sex |-> Female, Division_base |-> Open, Testing |-> Untested, Equipment |-> Raw,
       Class |-> C100, Full_Name |-> <<"A", ".", "J">>, Record_Name |-> <<"(", "u", ")">>],
      [Sex |-> Male, Division_base |-> Junior, Testing |-> Untested, Equipment |-> Raw,
       Class |-> C100, Full_Name |-> <<"U", "n", "a">>, Record_Name |-> <<"a", "*">>],
      [Sex |-> NaN, Division_base |-> NaN, Testing |-> NaN, Equipment |-> NaN,
       Class |-> C90, Full_Name |-> <<"j", "U">>, Record_Name |-> <<>>] }

Searches ==
    { <<>>, <<"j", "u", "n">>, <<"J", "U">>, <<".">>, <<"a", "*">>, <<"(">>,
      <<"j", "|", "l">> }

Selections ==
    [ sex : {All, Male, Female}, division : {All, Junior, Open},
      testing_status : {All, Tested, Untested}, equipment : {All, Raw, Wraps},
      weight_class : {All, C90, C100}, search : Searches ]

\* A table with its index: row i has label i.
Indexed(s) == [i \in 1..Len(s) |-> [idx |-> i] @@ s[i]]

InitFilter ==
    /\ pc = "start"
    /\ raw = <<>>
    /\ df \in {Indexed(s) : s \in SeqsUpTo(Sheet, MaxRows)}
    /\ sel = NoSel
    /\ filtered = <<>>
    /\ full_power = <<>>
    /\ single_lifts = <<>>
    /\ best = <<>>
    /\ best2 = <<>>
    /\ weight_opts = <<>>

\* inline_filters / sidebar_filters, lines 83-88 and 105-110: the widgets'
\* values are gathered in sel and apply_filters(df, sel) is returned.
ApplyFilters ==
    /\ pc = "start"
    /\ \E s \in Selections :
          LET res == apply_filters(df, s)
          IN  /\ ~res.raised
              /\ sel' = s
              /\ filtered' = res.rows
              /\ pc' = "filtered"
    /\ UNCHANGED <<raw, df, full_power, single_lifts, best, best2, weight_opts>>

\* The same call when str.contains raises re.error: nothing is returned.
ApplyFiltersRaises ==
    /\ pc = "start"
    /\ \E s \in Selections :
          /\ apply_filters(df, s).raised
          /\ sel' = s
          /\ pc' = "raised"
    /\ UNCHANGED <<raw, df, filtered, full_power, single_lifts, best, best2, weight_opts>>

NextFilter == ApplyFilters \/ ApplyFiltersRaises

SpecFilter == InitFilter /\ [][NextFilter]_vars

\* The index labels of a table's rows.
Labels(t) == {t[k].idx : k \in 1..Len(t)}

\* t holds rows of d, unchanged and in d's order (each row's label is its
\* position in d).
SubTable(t, d) ==
    /\ \A k \in 1..Len(t) : t[k].idx \in 1..Len(d) /\ t[k] = d[t[k].idx]
    /\ \A k, l \in 1..Len(t) : k < l => t[k].idx < t[l].idx

\* text holds lit as a substring, letter case ignored.
ContainsCI(text, lit) ==
    \E k \in 0..(Len(text) - Len(lit)) :
        \A m \in 1..Len(lit) : LowerChar(text[k + m]) = LowerChar(lit[m])

\* A selection cell admits a row's cell: it is "All" or equal to it.
Admits(choice, cell) == choice = All \/ cell = choice

\* The selection with only one of its predicates left active.
Only(s, field) ==
    [f \in DOMAIN NoSel |-> IF f = field THEN s[f] ELSE NoSel[f]]

\* C5: apply_filters returns exactly the rows that satisfy every active
\* predicate (exact equality for the five fields that are not "All", the
\* search match for a non-empty search), in their original order; that is
\* the intersection of the rows each predicate keeps alone; with every field
\* "All" and no search all rows are returned.
C5_FiltersIntersect ==
    pc = "filtered" =>
        LET alone(field) == Labels(apply_filters(df, Only(sel, field)).rows)
            keep == { i \in 1..Len(df) :
                        /\ Admits(sel.sex, df[i].Sex)
                        /\ Admits(sel.division, df[i].Division_base)
                        /\ Admits(sel.testing_status, df[i].Testing)
                        /\ Admits(sel.equipment, df[i].Equipment)
                        /\ Admits(sel.weight_class, df[i].Class)
                        /\ i \in alone("search") }
        IN  /\ SubTable(filtered, df)
            /\ Labels(filtered) = keep
            /\ Labels(filtered) = { i \in 1..Len(df) : \A f \in DOMAIN NoSel : i \in alone(f) }
            /\ sel = NoSel => filtered = df

\* Two rows, a field predicate and a search both active, and one row kept.
C5_Witness ==
    /\ pc = "filtered"
    /\ Len(df) = 2 /\ Len(filtered) = 1
    /\ sel.search # <<>>
    /\ \E f \in DOMAIN NoSel \ {"search"} : sel[f] # All
    /\ Labels(apply_filters(df, Only(sel, "search")).rows) # Labels(filtered)

\* C6: with the other fields "All", a non-empty search
\* never raises and keeps exactly the rows whose Full Name or Record Name
\* holds the text as a literal substring, letter case ignored.
C6_SearchIsLiteralSubstring ==
    (pc # "start" /\ sel.search # <<>> /\ Only(sel, "search") = sel) =>
        /\ pc = "filtered"
        /\ SubTable(filtered, df)
        /\ Labels(filtered) =
              { i \in 1..Len(df) :
                  \/ ContainsCI(df[i].Full_Name, sel.search)
                  \/ ContainsCI(df[i].Record_Name, sel.search) }

(***************************************************************************)
(* The Full Power and Single Lifts tabs of main                            *)
(***************************************************************************)
Single == <<"S", "i", "n", "g", "l", "e">>

BenchOnly == <<"B", "e", "n", "c", "h", " ", "O", "n", "l", "y">>

DeadliftOnly == <<"D", "e", "a", "d", "l", "i", "f", "t", " ", "O", "n", "l", "y">>

\* "Single", compiled
SinglePattern == Compile(Single)

\* "Single|Bench Only|Deadlift Only", compiled
SingleLiftPattern == Compile(Single \o <<"|">> \o BenchOnly \o <<"|">> \o DeadliftOnly)

\* line 263: ~filtered["Record Type"].str.contains("Single", case=False, na=False)
FullPowerMask(r) == ~StrContains(r.Record_Type, SinglePattern)

\* SingleLiftsMask without the restriction on Lift.
SingleLiftsAnyLift(r) == StrContains(r.Record_Type, SingleLiftPattern)

\* lines 267-268: mask & filtered["Lift"].isin(["Bench", "Deadlift"])
SingleLiftsMask(r) ==
    StrContains(r.Record_Type, SingleLiftPattern) /\ r.Lift \in {Bench, Deadlift}

TabTypes ==
    { <<>>, <<"F", "u", "l", "l", " ", "P", "o", "w", "e", "r">>,
      <<"S", "i", "n", "g", "l", "e", " ", "L", "i", "f", "t">>,
      <<"S", "I", "N", "G", "L", "E">>, BenchOnly,
      <<"d", "e", "a", "d", "l", "i", "f", "t", " ", "o", "n", "l", "y">>,
      <<"B", "e", "n", "c", "h">> }

TabLifts == { Squat, Bench, Deadlift, Total, <<"X">> }

TabRows == [Record_Type : TabTypes, Lift : TabLifts]

InitTabs ==
    /\ pc = "start"
    /\ raw = <<>>
    /\ df = <<>>
    /\ sel = NoSel
    /\ filtered \in {Indexed(s) : s \in SeqsUpTo(TabRows, MaxTab)}
    /\ full_power = <<>>
    /\ single_lifts = <<>>
    /\ best = <<>>
    /\ best2 = <<>>
    /\ weight_opts = <<>>

\* main, lines 262-264
FullPowerTab ==
    /\ pc = "start"
    /\ full_power' =
          Mask(filtered, [i \in 1..Len(filtered) |-> FullPowerMask(filtered[i])])
    /\ pc' = "full"
    /\ UNCHANGED <<raw, df, sel, filtered, single_lifts, best, best2, weight_opts>>

\* main, lines 266-269
SingleLiftsTab ==
    /\ pc = "full"
    /\ single_lifts' =
          Mask(filtered, [i \in 1..Len(filtered) |-> SingleLiftsMask(filtered[i])])
    /\ pc' = "single"
    /\ UNCHANGED <<raw, df, sel, filtered, full_power, best, best2, weight_opts>>

NextTabs == FullPowerTab \/ SingleLiftsTab

SpecTabs == InitTabs /\ [][NextTabs]_vars

\* C9: the Full Power view holds exactly the rows whose Record Type does not
\* hold "Single", and the Single Lifts view exactly the rows whose Record
\* Type holds "Single", "Bench Only" or "Deadlift Only" and whose Lift is
\* Bench or Deadlift (letter case ignored in the text tests).
C9_TabViews ==
    pc = "single" =>
        /\ SubTable(full_power, filtered)
        /\ Labels(full_power) =
              { i \in 1..Len(filtered) : ~ContainsCI(filtered[i].Record_Type, Single) }
        /\ SubTable(single_lifts, filtered)
        /\ Labels(single_lifts) =
              { i \in 1..Len(filtered) :
                  /\ \/ ContainsCI(filtered[i].Record_Type, Single)
                     \/ ContainsCI(filtered[i].Record_Type, BenchOnly)
                     \/ ContainsCI(filtered[i].Record_Type, DeadliftOnly)
                  /\ filtered[i].Lift = Bench \/ filtered[i].Lift = Deadlift }

\* A row that passes the text test with Lift Squat or Total beside a row in
\* the Single Lifts view, and a "Bench Only" row in both views.
C9_Witness ==
    /\ pc = "single"
    /\ Len(single_lifts) = 1
    /\ \E i \in 1..Len(filtered) :
          /\ filtered[i].Lift \in {Squat, Total}
          /\ ContainsCI(filtered[i].Record_Type, Single)
    /\ \E k \in 1..Len(full_power) :
          /\ ContainsCI(full_power[k].Record_Type, BenchOnly)
          /\ full_power[k] = single_lifts[1]

(***************************************************************************)
(* The weight-class options of inline_filters and sidebar_filters          *)
(***************************************************************************)
\* Series.unique(): the distinct values in order of first appearance.
Unique(s) ==
    LET G[i \in 0..Len(s)] ==
            IF i = 0 THEN <<>>
            ELSE IF \E k \in 1..(i - 1) : s[k] = s[i] THEN G[i - 1]
            ELSE Append(G[i - 1], s[i])
    IN  G[Len(s)]

\* key(x) < key(y) for key = lambda x: (pd.to_numeric(x, errors="coerce"), x):
\* tuples compare at their first items that are not equal, and a NaN is
\* neither equal to nor less than anything.
OptKeyLess(x, y) ==
    LET nx == ToNumeric(x)
        ny == ToNumeric(y)
    IN  IF ~nx.nan /\ ~ny.nan /\ nx.v = ny.v THEN StrLess(x, y)
        ELSE ~nx.nan /\ ~ny.nan /\ nx.v < ny.v

Reverse(s) == [i \in 1..Len(s) |-> s[Len(s) + 1 - i]]

\* count_run of list.sort: the length of the run the list starts with, and
\* whether it is a (strictly) descending one.
RECURSIVE RunLen(_, _, _)
RunLen(a, n, desc) ==
    IF n = Len(a) THEN n
    ELSE IF OptKeyLess(a[n + 1], a[n]) = desc THEN RunLen(a, n + 1, desc)
    ELSE n

\* The place binarysort finds for pivot among a[1..hi-1] (l, r as in the C
\* code, counted from 0).
RECURSIVE BinaryPlace(_, _, _, _)
BinaryPlace(a, pivot, l, r) ==
    IF l >= r THEN l
    ELSE LET p == l + ((r - l) \div 2)
         IN  IF OptKeyLess(pivot, a[p + 1]) THEN BinaryPlace(a, pivot, l, p)
             ELSE BinaryPlace(a, pivot, p + 1, r)

\* binarysort: a[1..start-1] is sorted; the others are inserted one by one.
RECURSIVE BinarySort(_, _)
BinarySort(a, start) ==
    IF start > Len(a) THEN a
    ELSE LET pivot == a[start]
             l == BinaryPlace(a, pivot, 0, start - 1)
             moved == SubSeq(a, 1, l) \o <<pivot>> \o SubSeq(a, l + 1, start - 1)
                      \o SubSeq(a, start + 1, Len(a))
         IN  BinarySort(moved, start + 1)

\* sorted(a, key=...) for a list shorter than 64: one run, found by
\* count_run (reversed if descending) and extended by binarysort.
Sorted(a) ==
    IF Len(a) < 2 THEN a
    ELSE LET desc == OptKeyLess(a[2], a[1])
             n == RunLen(a, 2, desc)
             run == IF desc THEN Reverse(SubSeq(a, 1, n)) \o SubSeq(a, n + 1, Len(a)) ELSE a
         IN  BinarySort(run, n + 1)

ClassColumn(d) == [i \in 1..Len(d) |-> d[i].Class]

\* lines 78 and 101
WeightOptions(d) == Sorted(Unique(ClassColumn(d)))

InitOpts ==
    /\ pc = "start"
    /\ raw = <<>>
    /\ df \in {[i \in 1..Len(s) |-> [idx |-> i, Class |-> s[i]]] :
                 s \in SeqsUpTo(BestClasses, MaxOpts)}
    /\ sel = NoSel
    /\ filtered = <<>>
    /\ full_power = <<>>
    /\ single_lifts = <<>>
    /\ best = <<>>
    /\ best2 = <<>>
    /\ weight_opts = <<>>

\* inline_filters, line 78 (sidebar_filters, line 101, is the same)
WeightOpts ==
    /\ pc = "start"
    /\ weight_opts' = WeightOptions(df)
    /\ pc' = "opts"
    /\ UNCHANGED <<raw, df, sel, filtered, full_power, single_lifts, best, best2>>

NextOpts == WeightOpts

SpecOpts == InitOpts /\ [][NextOpts]_vars

\* C10: the weight-class option list holds the numeric classes in
\* ascending numeric order and after them the non-numeric ones in string order.
C10_OptionsOrdered ==
    pc = "opts" =>
        \A i, j \in 1..Len(weight_opts) :
            i < j =>
                LET x == ToNumeric(weight_opts[i])
                    y == ToNumeric(weight_opts[j])
                IN  /\ x.nan => y.nan
                    /\ (~x.nan /\ ~y.nan) => x.v <= y.v
                    /\ (x.nan /\ y.nan) => StrLess(weight_opts[i], weight_opts[j])

====
